---- MODULE Spec2Model ----
(***************************************************************************)
(* A model of the netex-parse graph compiler (src/src/graph.rs,            *)
(* Graph::from_data and Graph::lookup_operating_period) and of the         *)
(* day-validity bit packing of the parser (src/src/parser.rs,              *)
(* NetexData::parse_day_bits).                                             *)
(*                                                                         *)
(* Rust HashMaps are TLA+ functions with a finite domain; Vecs are         *)
(* sequences.  Rust indices are 0-based and kept 0-based in the model: a   *)
(* Vec v indexed at i is the sequence element v[i + 1].                    *)
(***************************************************************************)
EXTENDS Integers, Sequences, FiniteSets

VARIABLES
    data,                          \* the input: &[NetexData]
    pc,                            \* position of from_data
    node_map,                      \* short name -> Indices
    ref_to_node_idx,               \* stop id -> Indices
    nodes,                         \* Vec<Node>
    filled,                        \* short names of node_map.values() already visited
    point_in_journey_to_stop_ref,  \* pattern point id -> scheduled stop point id
    lines,                         \* line id -> Line
    authorities,                   \* authority id -> Authority
    pattern_ref_to_line,           \* journey pattern id -> line id
    period_map,                    \* operating period id -> global index
    day_type_assignments,          \* day type -> DayTypeAssignment
    partials,                      \* the partial edge maps of the parallel map-reduce
    edges,                         \* the reduced edge map
    compacted,                     \* keys of the edges whose timetable is compacted
    graph,                         \* the returned Graph, or NoGraph
    failure,                       \* the panic that aborted from_data, or NoFailure
    text,                          \* the string handed to parse_day_bits, as ASCII bytes
    value,                         \* parse_day_bits: its argument, padded in place
    result,                        \* parse_day_bits: the bytes pushed so far
    bits_pc                        \* position of parse_day_bits

graph_vars == <<data, pc, node_map, ref_to_node_idx, nodes, filled,
                point_in_journey_to_stop_ref, lines, authorities,
                pattern_ref_to_line, period_map, day_type_assignments,
                partials, edges, compacted, graph, failure>>
bits_vars == <<text, value, result, bits_pc>>
vars == <<graph_vars, bits_vars>>

--------------------------------------------------------------------------
(* Maps and sequences *)

EmptyMap == << >>

ContainsKey(m, k) == k \in DOMAIN m

\* HashMap::insert: the new value replaces an old one.
Insert(m, k, v) == [x \in DOMAIN m \cup {k} |-> IF x = k THEN v ELSE m[x]]

\* HashMap::entry(k).or_insert(v): an old value is kept.
OrInsert(m, k, v) == IF ContainsKey(m, k) THEN m ELSE Insert(m, k, v)

Range(s) == {s[i] : i \in DOMAIN s}

SeqsUpTo(S, n) == UNION {[1..k -> S] : k \in 0..n}

RECURSIVE SumSeq(_)
SumSeq(s) == IF s = << >> THEN 0 ELSE Head(s) + SumSeq(Tail(s))

\* data.iter().flat_map(|d| field(d).iter()): the concatenation, in dataset order.
RECURSIVE FlatMap(_, _)
FlatMap(ds, field) ==
    IF ds = << >> THEN << >>
    ELSE ds[1][field] \o FlatMap(Tail(ds), field)

NoGraph == "NoGraph"
NoFailure == "NoFailure"
\* Option<T>
None == [some |-> FALSE]
Some(x) == [some |-> TRUE, value |-> x]

\* A sequential for loop over s with the loop body Op(acc, index, element), the
\* index 0-based as in iter().enumerate().
RECURSIVE ForEachFrom(_, _, _, _)
ForEachFrom(Op(_, _, _), acc, s, i) ==
    IF i >= Len(s) THEN acc
    ELSE ForEachFrom(Op, Op(acc, i, s[i + 1]), s, i + 1)

ForEach(Op(_, _, _), acc, s) == ForEachFrom(Op, acc, s, 0)

--------------------------------------------------------------------------
(* Identity resolver: node deduplication, graph.rs lines 73-100 *)

\* StopStep with a slip: a repeated short name moves its node to the later stop.
StopStepOverwrite(acc, data_idx, stop_idx, stop) ==
    LET indices == [data |-> data_idx, node |-> acc.counter, stop |-> stop_idx]
    IN  IF ContainsKey(acc.node_map, stop.short_name)
        THEN LET moved == [indices EXCEPT !.node = acc.node_map[stop.short_name].node]
             IN  [acc EXCEPT !.node_map = Insert(@, stop.short_name, moved),
                             !.ref_to_node_idx = Insert(@, stop.id, moved)]
        ELSE [node_map |-> Insert(acc.node_map, stop.short_name, indices),
              ref_to_node_idx |-> Insert(acc.ref_to_node_idx, stop.id, indices),
              counter |-> acc.counter + 1]

\* StopStep with a slip: the identifier keeps the node it was first aliased to.
StopStepFirstAlias(acc, data_idx, stop_idx, stop) ==
    IF ContainsKey(acc.node_map, stop.short_name)
    THEN [acc EXCEPT !.ref_to_node_idx =
                         OrInsert(@, stop.id, acc.node_map[stop.short_name])]
    ELSE LET indices == [data |-> data_idx, node |-> acc.counter, stop |-> stop_idx]
         IN  [node_map |-> Insert(acc.node_map, stop.short_name, indices),
              ref_to_node_idx |-> OrInsert(acc.ref_to_node_idx, stop.id, indices),
              counter |-> acc.counter + 1]

\* The loop body of lines 78-89.
StopStep(acc, data_idx, stop_idx, stop) ==
    IF ContainsKey(acc.node_map, stop.short_name)
    THEN [acc EXCEPT !.ref_to_node_idx =
                         Insert(@, stop.id, acc.node_map[stop.short_name])]
    ELSE LET indices == [data |-> data_idx, node |-> acc.counter, stop |-> stop_idx]
         IN  [node_map |-> Insert(acc.node_map, stop.short_name, indices),
              ref_to_node_idx |-> Insert(acc.ref_to_node_idx, stop.id, indices),
              counter |-> acc.counter + 1]

\* The nested loops of lines 76-91 over the whole input.
DedupStops(ds) ==
    LET OneData(acc, data_idx, one_data) ==
            LET OneStop(a, stop_idx, stop) == StopStep(a, data_idx, stop_idx, stop)
            IN  ForEach(OneStop, acc, one_data.scheduled_stop_points)
    IN  ForEach(OneData,
                [node_map |-> EmptyMap, ref_to_node_idx |-> EmptyMap, counter |-> 0],
                ds)

DefaultNode == [short_name |-> "", long |-> 0, lat |-> 0]

\* The loop body of lines 94-99 for one value of node_map.
NodeOf(ds, idx) ==
    LET current == ds[idx.data + 1].scheduled_stop_points[idx.stop + 1]
    IN  [short_name |-> current.short_name, long |-> current.long, lat |-> current.lat]

--------------------------------------------------------------------------
(* Identity resolver: the lookup tables, graph.rs lines 104-147 *)

\* Lines 104-113: first writer wins.
PointInJourneyToStopRef(ds) ==
    LET OneStop(acc, i, stop) == OrInsert(acc, stop.id, stop.scheduled_stop_point)
        OneSequence(acc, i, sequence) == ForEach(OneStop, acc, sequence.stops)
    IN  ForEach(OneSequence, EmptyMap, FlatMap(ds, "service_journey_patterns"))

\* Lines 115-120.
Lines(ds) ==
    LET OneLine(acc, i, line) == Insert(acc, line.id, line)
    IN  ForEach(OneLine, EmptyMap, FlatMap(ds, "lines"))

\* Lines 122-127.
Authorities(ds) ==
    LET OneAuthority(acc, i, authority) == Insert(acc, authority.id, authority)
    IN  ForEach(OneAuthority, EmptyMap, FlatMap(ds, "authorities"))

\* Lines 129-134.
PatternRefToLine(ds) ==
    LET OnePattern(acc, i, journey_pattern) ==
            Insert(acc, journey_pattern.id, journey_pattern.line)
    IN  ForEach(OnePattern, EmptyMap, FlatMap(ds, "service_journey_patterns"))

\* Lines 136-143: enumerate() numbers the flattened periods from 0.
PeriodMap(ds) ==
    LET OnePeriod(acc, idx, period) == Insert(acc, period.id, idx)
    IN  ForEach(OnePeriod, EmptyMap, FlatMap(ds, "operating_periods"))

\* Lines 144-147.
DayTypeAssignments(ds) ==
    LET OneDta(acc, i, dta) == Insert(acc, dta.day_type, dta)
    IN  ForEach(OneDta, EmptyMap, FlatMap(ds, "day_type_assignments"))

--------------------------------------------------------------------------
(* Edge builder: the map closure of graph.rs lines 153-185 *)

DefaultTimetable == [journeys |-> << >>, periods |-> << >>]

\* The Edge literal of lines 169-173 and 190-194.
NewEdge(start_node, end_node) ==
    [start_node |-> start_node, end_node |-> end_node, timetable |-> DefaultTimetable]

\* ref_to_node_idx[&point_in_journey_to_stop_ref[&id]].node, lines 158-163:
\* None where either index panics.
ResolveNode(id) ==
    IF ~ContainsKey(point_in_journey_to_stop_ref, id) THEN None
    ELSE IF ~ContainsKey(ref_to_node_idx, point_in_journey_to_stop_ref[id]) THEN None
    ELSE Some(ref_to_node_idx[point_in_journey_to_stop_ref[id]].node)

Panicked(why) == [failure |-> why, local_edges |-> EmptyMap]

\* The body of the window loop, lines 156-182, in the order the lookups run.
WindowStep(local_edges, journey, pre, current) ==
    LET start == ResolveNode(pre.stop_point_in_journey_pattern)
        end == ResolveNode(current.stop_point_in_journey_pattern)
        start_node == start.value
        end_node == end.value
    IN  IF start = None \/ end = None
        THEN Panicked("UnresolvedStopReference")
        ELSE IF ~ContainsKey(day_type_assignments, journey.day_type)
        THEN Panicked("MissingCalendarAssignment")
        ELSE IF ~ContainsKey(pattern_ref_to_line, journey.pattern_ref)
        THEN Panicked("UnresolvedLine")
        ELSE IF ~ContainsKey(lines, pattern_ref_to_line[journey.pattern_ref])
        THEN Panicked("UnresolvedLine")
        ELSE
        LET period == day_type_assignments[journey.day_type].operating_period
            line == lines[pattern_ref_to_line[journey.pattern_ref]]
            key == <<start_node, end_node>>
            with_entry == OrInsert(local_edges, key, NewEdge(start_node, end_node))
        IN  IF ~ContainsKey(period_map, period)
            THEN Panicked("UnknownOperatingPeriod")
            ELSE IF ~ContainsKey(authorities, line.authority)
            THEN Panicked("UnresolvedAuthority")
            ELSE
            [failure |-> NoFailure,
             local_edges |->
                [with_entry EXCEPT ![key].timetable.journeys =
                    Append(@, [departure |-> pre.departure,
                               arrival |-> current.arrival,
                               transport_mode |-> journey.transport_mode,
                               operating_period |-> period_map[period],
                               line |-> line.short_name,
                               controller |-> authorities[line.authority].short_name])]]

\* journey.passing_times.windows(2): the loop from window w (1-based) on.
RECURSIVE WindowsFrom(_, _, _)
WindowsFrom(acc, journey, w) ==
    IF acc.failure # NoFailure \/ w + 1 > Len(journey.passing_times) THEN acc
    ELSE WindowsFrom(WindowStep(acc.local_edges, journey,
                                journey.passing_times[w], journey.passing_times[w + 1]),
                     journey, w + 1)

\* The map closure on one service journey, lines 153-185.
MapJourneyResult(journey) ==
    WindowsFrom([failure |-> NoFailure, local_edges |-> EmptyMap], journey, 1)

--------------------------------------------------------------------------
(* Edge builder: the reduce closure of graph.rs lines 188-201 *)

\* Combine with a slip: an entry of a whose key b lacks is dropped.
CombineOnlyB(a, b) ==
    [key \in DOMAIN b |->
        IF ~ContainsKey(a, key) THEN b[key]
        ELSE [b[key] EXCEPT !.timetable.journeys = @ \o a[key].timetable.journeys]]

\* Combine with a slip: a replace-on-conflict merge, a's entry replacing b's.
CombineReplace(a, b) ==
    [key \in DOMAIN a \cup DOMAIN b |-> IF ContainsKey(a, key) THEN a[key] ELSE b[key]]

\* |a, mut b|: every entry of a is appended to b's entry of the same key, which
\* is created empty when b has none.  a's keys are distinct, so the order in
\* which a.into_iter() yields them does not change the result.
Combine(a, b) ==
    [key \in DOMAIN a \cup DOMAIN b |->
        IF ~ContainsKey(a, key) THEN b[key]
        ELSE LET entry == IF ContainsKey(b, key) THEN b[key]
                          ELSE NewEdge(key[1], key[2])
             IN  [entry EXCEPT !.timetable.journeys = @ \o a[key].timetable.journeys]]

--------------------------------------------------------------------------
(* Calendar compactor, graph.rs lines 204-232, and the period lookup, 240-251 *)

\* lookup_operating_period with a slip: the index is not reduced by the periods
\* of the datasets passed over.
RECURSIVE lookup_without_subtraction(_, _)
lookup_without_subtraction(ds, global_index) ==
    IF ds = << >> THEN None
    ELSE IF global_index < Len(ds[1].operating_periods)
    THEN Some(ds[1].operating_periods[global_index + 1])
    ELSE lookup_without_subtraction(Tail(ds), global_index)

RECURSIVE lookup_operating_period(_, _)
lookup_operating_period(ds, global_index) ==
    IF ds = << >> THEN None
    ELSE IF global_index < Len(ds[1].operating_periods)
    THEN Some(ds[1].operating_periods[global_index + 1])
    ELSE lookup_operating_period(Tail(ds), global_index - Len(ds[1].operating_periods))

Base64Alphabet ==
    <<"A", "B", "C", "D", "E", "F", "G", "H", "I", "J", "K", "L", "M", "N", "O", "P",
      "Q", "R", "S", "T", "U", "V", "W", "X", "Y", "Z", "a", "b", "c", "d", "e", "f",
      "g", "h", "i", "j", "k", "l", "m", "n", "o", "p", "q", "r", "s", "t", "u", "v",
      "w", "x", "y", "z", "0", "1", "2", "3", "4", "5", "6", "7", "8", "9", "+", "/">>

Base64Char(sextet) == Base64Alphabet[sextet + 1]

\* base64::encode (standard alphabet, padded), as the sequence of its characters.
RECURSIVE Base64Encode(_)
Base64Encode(bytes) ==
    IF Len(bytes) = 0 THEN << >>
    ELSE IF Len(bytes) = 1
    THEN <<Base64Char(bytes[1] \div 4), Base64Char((bytes[1] % 4) * 16), "=", "=">>
    ELSE IF Len(bytes) = 2
    THEN <<Base64Char(bytes[1] \div 4),
           Base64Char((bytes[1] % 4) * 16 + bytes[2] \div 16),
           Base64Char((bytes[2] % 16) * 4), "=">>
    ELSE <<Base64Char(bytes[1] \div 4),
           Base64Char((bytes[1] % 4) * 16 + bytes[2] \div 16),
           Base64Char((bytes[2] % 16) * 4 + bytes[3] \div 64),
           Base64Char(bytes[3] % 64)>>
         \o Base64Encode(SubSeq(bytes, 4, Len(bytes)))

\* Lines 205-213: local indices in first-encounter order over the journeys.
GlobalToLocal(journeys) ==
    LET OneJourney(acc, i, journey) ==
            IF ContainsKey(acc.global_to_local, journey.operating_period) THEN acc
            ELSE [global_to_local |->
                      Insert(acc.global_to_local, journey.operating_period, acc.counter),
                  counter |-> acc.counter + 1]
    IN  ForEach(OneJourney, [global_to_local |-> EmptyMap, counter |-> 0],
                journeys).global_to_local

\* The OperatingPeriod literal of lines 219-224.
LocalPeriod(uic_op) ==
    [from |-> uic_op.from, to |-> uic_op.to,
     valid_day_bits |-> Base64Encode(uic_op.valid_day_bits),
     valid_day |-> uic_op.valid_day_bits]

\* GlobalOf with a slip: the period table is filled in the order of the global
\* indices instead of the local ones.
GlobalOfSorted(global_to_local, local) ==
    CHOOSE global \in DOMAIN global_to_local :
        Cardinality({other \in DOMAIN global_to_local : other < global}) = local

\* Lines 214-225: the global index stored at each local index.
GlobalOf(global_to_local, local) ==
    CHOOSE global \in DOMAIN global_to_local : global_to_local[global] = local

\* CompactEdgeResult with a slip: every period of the input is kept and the
\* journeys keep their global indices.
CompactEdgeKeepAll(ds, edge) ==
    [failure |-> NoFailure,
     edge |-> [edge EXCEPT !.timetable.periods =
                  LET all == FlatMap(ds, "operating_periods")
                  IN  [g \in DOMAIN all |-> LocalPeriod(all[g])]]]

\* CompactEdgeResult with a slip: the journeys are not rewritten (lines 226-230).
CompactEdgeNoRewrite(ds, edge) ==
    LET global_to_local == GlobalToLocal(edge.timetable.journeys)
        n == Cardinality(DOMAIN global_to_local)
    IN  IF \E global \in DOMAIN global_to_local :
               lookup_operating_period(ds, global) = None
        THEN [failure |-> "MissingOperatingPeriod", edge |-> edge]
        ELSE [failure |-> NoFailure,
              edge |->
                [edge EXCEPT
                    !.timetable.periods =
                        [local \in 1..n |->
                            LocalPeriod(lookup_operating_period(
                                ds, GlobalOf(global_to_local, local - 1)).value)]]]

\* The closure of lines 204-232 on one edge.
CompactEdgeResult(ds, edge) ==
    LET global_to_local == GlobalToLocal(edge.timetable.journeys)
        n == Cardinality(DOMAIN global_to_local)
    IN  IF \E global \in DOMAIN global_to_local :
               lookup_operating_period(ds, global) = None
        THEN [failure |-> "MissingOperatingPeriod", edge |-> edge]
        ELSE [failure |-> NoFailure,
              edge |->
                [edge EXCEPT
                    !.timetable.periods =
                        [local \in 1..n |->
                            LocalPeriod(lookup_operating_period(
                                ds, GlobalOf(global_to_local, local - 1)).value)],
                    !.timetable.journeys =
                        [i \in DOMAIN edge.timetable.journeys |->
                            [edge.timetable.journeys[i] EXCEPT
                                !.operating_period = global_to_local[@]]]]]

--------------------------------------------------------------------------
(* Day-validity bit packing, parser.rs lines 264-285 *)

ASCII_ZERO == 48

RECURSIVE BitOr(_, _)
BitOr(x, y) ==
    IF x = 0 THEN y
    ELSE IF y = 0 THEN x
    ELSE ((x % 2) + (y % 2) - (x % 2) * (y % 2)) + 2 * BitOr(x \div 2, y \div 2)

RECURSIVE Pow2(_)
Pow2(n) == IF n = 0 THEN 1 ELSE 2 * Pow2(n - 1)

\* u8 << i for i < 8: the bits shifted out are dropped.
Shl8(x, i) == (x * Pow2(i)) % 256

\* parse_day_bit_group with a slip: the first day goes to the most significant bit.
parse_day_bit_group_msb(group) ==
    LET OneBit(acc, k, i) == BitOr(acc, Shl8(group[i + 1] - ASCII_ZERO, 7 - i))
    IN  ForEach(OneBit, 0, [k \in 1..8 |-> k - 1])

\* Lines 278-285: the loop over i in 0..8; group holds at least 8 bytes.
parse_day_bit_group(group) ==
    LET OneBit(acc, k, i) == BitOr(acc, Shl8(group[i + 1] - ASCII_ZERO, i))
    IN  ForEach(OneBit, 0, [k \in 1..8 |-> k - 1])

\* Lines 266-269: the string after padding.
Padded(str) ==
    LET pad_len == 8 - (Len(str) % 8)
    IN  IF pad_len # 8 THEN str \o [i \in 1..pad_len |-> ASCII_ZERO] ELSE str

--------------------------------------------------------------------------
(* Inputs: the records of parser.rs, and the bounded families Init draws from *)

MaxStops == 3
MaxPatternStops == 2
MaxJourneys == 3
MaxPassing == 3
MaxPeriods == 3
MaxAssignments == 2
MaxLines == 2
MaxBits == 10

ScheduledStopPoint(id, short_name, long, lat) ==
    [id |-> id, short_name |-> short_name, long |-> long, lat |-> lat]

StopPointInJourneyPattern(id, scheduled_stop_point) ==
    [id |-> id, scheduled_stop_point |-> scheduled_stop_point]

ServiceJourneyPattern(id, line, stops) == [id |-> id, line |-> line, stops |-> stops]

Line(id, short_name, authority) ==
    [id |-> id, short_name |-> short_name, authority |-> authority]

Authority(id, short_name) == [id |-> id, short_name |-> short_name]

UicOperatingPeriod(id, from, to, valid_day_bits) ==
    [id |-> id, from |-> from, to |-> to, valid_day_bits |-> valid_day_bits]

DayTypeAssignment(day_type, operating_period) ==
    [operating_period |-> operating_period, day_type |-> day_type, is_available |-> TRUE]

\* The passing time at position i of a journey calls at pattern point refs[i].
PassingTimes(refs) ==
    [i \in DOMAIN refs |->
        [stop_point_in_journey_pattern |-> refs[i],
         arrival |-> 10 * i, departure |-> 10 * i + 1]]

ServiceJourney(refs, day_type, pattern_ref) ==
    [passing_times |-> PassingTimes(refs), day_type |-> day_type,
     transport_mode |-> "bus", pattern_ref |-> pattern_ref]

EmptyData ==
    [scheduled_stop_points |-> << >>, service_journey_patterns |-> << >>,
     service_journeys |-> << >>, operating_periods |-> << >>,
     day_type_assignments |-> << >>, lines |-> << >>, authorities |-> << >>]

\* A well-formed input of two datasets: stop 3 of the second dataset carries the
\* short name of stop 1 of the first, with other coordinates.
Base1 ==
    [scheduled_stop_points |-> <<ScheduledStopPoint(1, "A", 10, 50),
                                 ScheduledStopPoint(2, "B", 11, 51)>>,
     service_journey_patterns |->
        <<ServiceJourneyPattern(1, 1, <<StopPointInJourneyPattern(1, 1),
                                        StopPointInJourneyPattern(2, 2)>>)>>,
     service_journeys |-> <<ServiceJourney(<<1, 2, 3>>, 1, 1)>>,
     operating_periods |-> <<UicOperatingPeriod(1, 220101, 220131, <<127, 3>>)>>,
     day_type_assignments |-> <<DayTypeAssignment(1, 1)>>,
     lines |-> <<Line(1, "L1", 1)>>,
     authorities |-> <<Authority(1, "Op1")>>]

Base2 ==
    [scheduled_stop_points |-> <<ScheduledStopPoint(3, "A", 12, 52)>>,
     service_journey_patterns |->
        <<ServiceJourneyPattern(2, 2, <<StopPointInJourneyPattern(3, 3)>>)>>,
     service_journeys |-> <<ServiceJourney(<<3, 2>>, 2, 2)>>,
     operating_periods |-> <<UicOperatingPeriod(2, 220201, 220228, <<1>>)>>,
     day_type_assignments |-> <<DayTypeAssignment(2, 2)>>,
     lines |-> <<Line(2, "L2", 2)>>,
     authorities |-> <<Authority(2, "Op2")>>]

\* The ways to cut a list into the lists of two, and of three, datasets.
Splits2(s) == {<<SubSeq(s, 1, k), SubSeq(s, k + 1, Len(s))>> : k \in 0..Len(s)}

Splits3(s) ==
    {<<SubSeq(s, 1, k), SubSeq(s, k + 1, m), SubSeq(s, m + 1, Len(s))>> :
        <<k, m>> \in {km \in (0..Len(s)) \X (0..Len(s)) : km[1] <= km[2]}}

\* The base input with one collection replaced by the two parts of a cut.
Vary2(field, parts) ==
    <<[Base1 EXCEPT ![field] = parts[1]], [Base2 EXCEPT ![field] = parts[2]]>>

StopRecords ==
    {ScheduledStopPoint(id, v[1], v[2], v[3]) :
        id \in {1, 2}, v \in {<<"A", 10, 50>>, <<"A", 12, 52>>, <<"B", 11, 51>>}}

\* Stop points vary: names and identifiers repeat within and across datasets.
\* The one journey calls at the pattern points of stops 1 and 2 only.
StopInput(parts) ==
    <<[Base1 EXCEPT !.scheduled_stop_points = parts[1],
                    !.service_journeys = <<ServiceJourney(<<1, 2, 2>>, 1, 1)>>],
      [Base2 EXCEPT !.scheduled_stop_points = parts[2],
                    !.service_journeys = << >>]>>

PatternStopRecords ==
    {StopPointInJourneyPattern(id, ref) : id \in {1, 2, 3}, ref \in {1, 3, 7}}

JourneyChoices ==
    {<< >>, <<ServiceJourney(<<1>>, 1, 1)>>, <<ServiceJourney(<<1, 2>>, 1, 1)>>,
     <<ServiceJourney(<<3, 1>>, 1, 1), ServiceJourney(<<2>>, 1, 1)>>}

\* The pattern points of the first dataset vary (reference 7 names no stop point),
\* under journeys that use them, use one alone, or use none.
PatternInput(stops, js) ==
    <<[Base1 EXCEPT !.service_journey_patterns = <<ServiceJourneyPattern(1, 1, stops)>>,
                    !.service_journeys = js],
      [Base2 EXCEPT !.service_journey_patterns = << >>,
                    !.service_journeys = << >>]>>

\* Journeys of one window, from A to B or back: several journeys meet on an
\* edge, with both calendars.
OneWindowJourneys ==
    {ServiceJourney(refs, dt, 1) : refs \in {<<1, 2>>, <<2, 1>>}, dt \in {1, 2}}

ManyJourneyInput(js) ==
    <<[Base1 EXCEPT !.service_journeys = << >>], [Base2 EXCEPT !.service_journeys = js]>>

\* One journey of any length up to MaxPassing, over resolved and unresolved
\* pattern points and assigned and unassigned day types, alone or beside a base
\* journey.
LongJourneys ==
    {ServiceJourney(refs, dt, 1) :
        refs \in SeqsUpTo({1, 2, 4}, MaxPassing), dt \in {1, 2, 9}}

LongJourneyParts(j) ==
    {<<<<j>>, << >>>>, <<<<j>>, Base2.service_journeys>>,
     <<Base1.service_journeys, <<j>>>>}

PeriodRecords ==
    {UicOperatingPeriod(1, 220101, 220131, <<127, 3>>),
     UicOperatingPeriod(2, 220201, 220228, <<1>>),
     UicOperatingPeriod(1, 220301, 220331, << >>)}

\* Operating periods vary over three datasets, some of them without periods; the
\* third dataset holds nothing else.
PeriodInput(parts) ==
    <<[Base1 EXCEPT !.operating_periods = parts[1]],
      [Base2 EXCEPT !.operating_periods = parts[2]],
      [EmptyData EXCEPT !.operating_periods = parts[3]]>>

AssignmentRecords ==
    {DayTypeAssignment(dt, op) : dt \in {1, 2}, op \in {1, 2, 5}}

LineRecords == {Line(id, name, a) : id \in {1, 2}, name \in {"L1", "L2"}, a \in {1, 6}}

AuthorityRecords == {Authority(id, name) : id \in {1, 2}, name \in {"Op1", "Op2"}}

--------------------------------------------------------------------------
(* Graph::from_data as a state machine *)

Pending == [tag |-> "pending"]
Consumed == [tag |-> "consumed"]
Ready(map) == [tag |-> "ready", map |-> map]

\* data.par_iter().flat_map(|d| d.service_journeys.par_iter()), line 152.
AllJourneys == FlatMap(data, "service_journeys")

\* from_data is entered with the input d.
InitWith(d) ==
    /\ data = d
    /\ pc = "stops"
    /\ node_map = EmptyMap
    /\ ref_to_node_idx = EmptyMap
    /\ nodes = << >>
    /\ filled = {}
    /\ point_in_journey_to_stop_ref = EmptyMap
    /\ lines = EmptyMap
    /\ authorities = EmptyMap
    /\ pattern_ref_to_line = EmptyMap
    /\ period_map = EmptyMap
    /\ day_type_assignments = EmptyMap
    /\ partials = << >>
    /\ edges = EmptyMap
    /\ compacted = {}
    /\ graph = NoGraph
    /\ failure = NoFailure
    /\ text = << >>
    /\ value = << >>
    /\ result = << >>
    /\ bits_pc = "idle"

\* The inputs: the base input with one of its collections varied at a time.
Init ==
    \/ \E s \in SeqsUpTo(StopRecords, MaxStops) :
           \E parts \in Splits2(s) : InitWith(StopInput(parts))
    \/ \E stops \in SeqsUpTo(PatternStopRecords, MaxPatternStops) :
           \E js \in JourneyChoices : InitWith(PatternInput(stops, js))
    \/ \E js \in SeqsUpTo(OneWindowJourneys, MaxJourneys) :
           InitWith(ManyJourneyInput(js))
    \/ \E j \in LongJourneys :
           \E parts \in LongJourneyParts(j) : InitWith(Vary2("service_journeys", parts))
    \/ \E s \in SeqsUpTo(PeriodRecords, MaxPeriods) :
           \E parts \in Splits3(s) : InitWith(PeriodInput(parts))
    \/ \E s \in SeqsUpTo(AssignmentRecords, MaxAssignments) :
           \E parts \in Splits2(s) : InitWith(Vary2("day_type_assignments", parts))
    \/ \E s \in SeqsUpTo(LineRecords, MaxLines) :
           \E parts \in Splits2(s) : InitWith(Vary2("lines", parts))
    \/ \E s \in SeqsUpTo(AuthorityRecords, MaxLines) :
           \E parts \in Splits2(s) : InitWith(Vary2("authorities", parts))

\* Lines 73-92: the deduplication loops, then the vector of default nodes.
ResolveStops ==
    /\ pc = "stops"
    /\ LET r == DedupStops(data)
       IN  /\ node_map' = r.node_map
           /\ ref_to_node_idx' = r.ref_to_node_idx
           /\ nodes' = [i \in 1..Cardinality(DOMAIN r.node_map) |-> DefaultNode]
    /\ pc' = "nodes"
    /\ UNCHANGED <<data, filled, point_in_journey_to_stop_ref, lines, authorities,
                   pattern_ref_to_line, period_map, day_type_assignments, partials,
                   edges, compacted, graph, failure, bits_vars>>

\* Lines 93-100: one pass of the loop over node_map.values(), whose order the
\* HashMap does not fix.
FillNode(short_name) ==
    /\ pc = "nodes"
    /\ short_name \in DOMAIN node_map \ filled
    /\ nodes' = [nodes EXCEPT ![node_map[short_name].node + 1] =
                                  NodeOf(data, node_map[short_name])]
    /\ filled' = filled \cup {short_name}
    /\ UNCHANGED <<data, pc, node_map, ref_to_node_idx, point_in_journey_to_stop_ref,
                   lines, authorities, pattern_ref_to_line, period_map,
                   day_type_assignments, partials, edges, compacted, graph, failure,
                   bits_vars>>

\* Lines 104-147: the lookup tables, built one after the other; then the
\* parallel iterator of line 149 is set up with one item per service journey.
BuildLookups ==
    /\ pc = "nodes"
    /\ filled = DOMAIN node_map
    /\ point_in_journey_to_stop_ref' = PointInJourneyToStopRef(data)
    /\ lines' = Lines(data)
    /\ authorities' = Authorities(data)
    /\ pattern_ref_to_line' = PatternRefToLine(data)
    /\ period_map' = PeriodMap(data)
    /\ day_type_assignments' = DayTypeAssignments(data)
    /\ partials' = [k \in 1..Len(AllJourneys) |-> Pending]
    /\ pc' = "edges"
    /\ UNCHANGED <<data, node_map, ref_to_node_idx, nodes, filled, edges, compacted,
                   graph, failure, bits_vars>>

\* Lines 153-185: the map closure runs on one journey, at any time and in any
\* order.  A panic in it aborts from_data.
MapJourney(k) ==
    /\ pc = "edges"
    /\ partials[k] = Pending
    /\ LET r == MapJourneyResult(AllJourneys[k])
       IN  IF r.failure # NoFailure
           THEN /\ pc' = "panic"
                /\ failure' = r.failure
                /\ UNCHANGED partials
           ELSE /\ partials' = [partials EXCEPT ![k] = Ready(r.local_edges)]
                /\ UNCHANGED <<pc, failure>>
    /\ UNCHANGED <<data, node_map, ref_to_node_idx, nodes, filled,
                   point_in_journey_to_stop_ref, lines, authorities,
                   pattern_ref_to_line, period_map, day_type_assignments, edges,
                   compacted, graph, bits_vars>>

\* Lines 186-202: the reduce closure combines two partial results, a and b, of
\* any two finished parts; the result takes the place of the earlier one.
CombinePartials(i, j) ==
    /\ pc = "edges"
    /\ i # j
    /\ partials[i].tag = "ready"
    /\ partials[j].tag = "ready"
    /\ LET keep == IF i < j THEN i ELSE j
           drop == IF i < j THEN j ELSE i
       IN  partials' = [partials EXCEPT
                            ![keep] = Ready(Combine(partials[i].map, partials[j].map)),
                            ![drop] = Consumed]
    /\ UNCHANGED <<data, pc, node_map, ref_to_node_idx, nodes, filled,
                   point_in_journey_to_stop_ref, lines, authorities,
                   pattern_ref_to_line, period_map, day_type_assignments, edges,
                   compacted, graph, failure, bits_vars>>

ReadySlots == {k \in DOMAIN partials : partials[k].tag = "ready"}

\* Line 202: reduce returns the one result left, or identity() (line 187) when
\* there was no journey at all.
FinishReduce ==
    /\ pc = "edges"
    /\ \A k \in DOMAIN partials : partials[k] # Pending
    /\ Cardinality(ReadySlots) <= 1
    /\ edges' = IF ReadySlots = {} THEN EmptyMap
                ELSE partials[CHOOSE k \in ReadySlots : TRUE].map
    /\ pc' = "compact"
    /\ UNCHANGED <<data, node_map, ref_to_node_idx, nodes, filled,
                   point_in_journey_to_stop_ref, lines, authorities,
                   pattern_ref_to_line, period_map, day_type_assignments, partials,
                   compacted, graph, failure, bits_vars>>

\* Lines 204-232: the closure of par_iter_mut().for_each on one edge, the edges
\* in any order.
CompactEdge(key) ==
    /\ pc = "compact"
    /\ key \in DOMAIN edges \ compacted
    /\ LET r == CompactEdgeResult(data, edges[key])
       IN  IF r.failure # NoFailure
           THEN /\ pc' = "panic"
                /\ failure' = r.failure
                /\ UNCHANGED <<edges, compacted>>
           ELSE /\ edges' = [edges EXCEPT ![key] = r.edge]
                /\ compacted' = compacted \cup {key}
                /\ UNCHANGED <<pc, failure>>
    /\ UNCHANGED <<data, node_map, ref_to_node_idx, nodes, filled,
                   point_in_journey_to_stop_ref, lines, authorities,
                   pattern_ref_to_line, period_map, day_type_assignments, partials,
                   graph, bits_vars>>

\* The orders in which edges.into_iter() can yield the values of the map.
EdgeOrders(m) ==
    {order \in [1..Cardinality(DOMAIN m) -> DOMAIN m] :
        \A i, j \in DOMAIN order : i # j => order[i] # order[j]}

\* Lines 234-237.
Return ==
    /\ pc = "compact"
    /\ compacted = DOMAIN edges
    /\ \E order \in EdgeOrders(edges) :
           graph' = [nodes |-> nodes,
                     edges |-> [i \in DOMAIN order |-> edges[order[i]]]]
    /\ pc' = "done"
    /\ UNCHANGED <<data, node_map, ref_to_node_idx, nodes, filled,
                   point_in_journey_to_stop_ref, lines, authorities,
                   pattern_ref_to_line, period_map, day_type_assignments, partials,
                   edges, compacted, failure, bits_vars>>

Next ==
    \/ ResolveStops
    \/ \E short_name \in DOMAIN node_map : FillNode(short_name)
    \/ BuildLookups
    \/ \E k \in DOMAIN partials : MapJourney(k)
    \/ \E i, j \in DOMAIN partials : CombinePartials(i, j)
    \/ FinishReduce
    \/ \E key \in DOMAIN edges : CompactEdge(key)
    \/ Return

Spec == Init /\ [][Next]_vars

--------------------------------------------------------------------------
(* NetexData::parse_day_bits as a state machine *)

\* The strings over '0' and '1' of at most MaxBits characters.
DayBitStrings == SeqsUpTo({ASCII_ZERO, ASCII_ZERO + 1}, MaxBits)

InitDayBits ==
    /\ text \in DayBitStrings
    /\ value = text
    /\ result = << >>
    /\ bits_pc = "pad"
    /\ data = << >>
    /\ pc = "idle"
    /\ node_map = EmptyMap
    /\ ref_to_node_idx = EmptyMap
    /\ nodes = << >>
    /\ filled = {}
    /\ point_in_journey_to_stop_ref = EmptyMap
    /\ lines = EmptyMap
    /\ authorities = EmptyMap
    /\ pattern_ref_to_line = EmptyMap
    /\ period_map = EmptyMap
    /\ day_type_assignments = EmptyMap
    /\ partials = << >>
    /\ edges = EmptyMap
    /\ compacted = {}
    /\ graph = NoGraph
    /\ failure = NoFailure

\* Lines 266-270.
PadValue ==
    /\ bits_pc = "pad"
    /\ value' = Padded(value)
    /\ bits_pc' = "chunks"
    /\ UNCHANGED <<text, result, graph_vars>>

\* The chunk of value.as_bytes().chunks(8) that follows the groups pushed so far.
NextChunk ==
    SubSeq(value, 8 * Len(result) + 1,
           IF 8 * Len(result) + 8 < Len(value) THEN 8 * Len(result) + 8 ELSE Len(value))

\* Lines 271-273: one pass of the loop over the chunks.
PushGroup ==
    /\ bits_pc = "chunks"
    /\ 8 * Len(result) < Len(value)
    /\ result' = Append(result, parse_day_bit_group(NextChunk))
    /\ UNCHANGED <<text, value, bits_pc, graph_vars>>

\* Line 274.
ReturnDayBits ==
    /\ bits_pc = "chunks"
    /\ 8 * Len(result) >= Len(value)
    /\ bits_pc' = "done"
    /\ UNCHANGED <<text, value, result, graph_vars>>

NextDayBits == PadValue \/ PushGroup \/ ReturnDayBits

SpecDayBits == InitDayBits /\ [][NextDayBits]_vars

--------------------------------------------------------------------------
(* What the claims speak of, read off the input *)

AllStops == FlatMap(data, "scheduled_stop_points")

ShortNames == {AllStops[i].short_name : i \in DOMAIN AllStops}

\* The position, in dataset order and then stop order, of the first stop point
\* that carries the short name.
FirstSeen(short_name) ==
    CHOOSE i \in DOMAIN AllStops :
        /\ AllStops[i].short_name = short_name
        /\ \A j \in 1..(i - 1) : AllStops[j].short_name # short_name

\* The 0-based rank of the short name in first-seen order.
Rank(short_name) ==
    Cardinality({other \in ShortNames : FirstSeen(other) < FirstSeen(short_name)})

\* The node list the claims describe, as a function of the input alone.
NodesAsClaimed(ns) ==
    /\ Len(ns) = Cardinality(ShortNames)
    /\ \A short_name \in ShortNames :
           ns[Rank(short_name) + 1] =
               [short_name |-> short_name,
                long |-> AllStops[FirstSeen(short_name)].long,
                lat |-> AllStops[FirstSeen(short_name)].lat]

\* The windows of the input: journey k (in flattened order), passing times w, w + 1.
Windows ==
    {kw \in (DOMAIN AllJourneys) \X (1..MaxPassing + 1) :
        kw[2] + 1 <= Len(AllJourneys[kw[1]].passing_times)}

\* The pair of canonical nodes a window resolves to; read only where from_data
\* returned, so that every reference resolves.
WindowKey(kw) ==
    LET times == AllJourneys[kw[1]].passing_times
    IN  <<ResolveNode(times[kw[2]].stop_point_in_journey_pattern).value,
          ResolveNode(times[kw[2] + 1].stop_point_in_journey_pattern).value>>

NodeIndices == 0..(Len(graph.nodes) - 1)

EdgesWithKey(es, x, y) == {i \in DOMAIN es : es[i].start_node = x /\ es[i].end_node = y}

Returned == pc = "done"

\* The loop over node_map.values() has ended; nodes is not written again.
NodesFilled == pc = "nodes" /\ filled = DOMAIN node_map

\* The lookup tables are built and the parallel phase is about to start; the
\* tables are not written again.
LookupsBuilt == pc = "edges" /\ \A k \in DOMAIN partials : partials[k] = Pending

\* C1: from_data produces exactly one node per distinct short name, at the index
\* that is the 0-based rank of the name in first-seen order, with the longitude
\* and latitude of the first stop point that carried the name.
C1_NodePerShortName ==
    /\ NodesFilled => NodesAsClaimed(nodes)
    /\ Returned => NodesAsClaimed(graph.nodes)

\* C1 witness: a graph is returned for an input in which a later stop point,
\* of another dataset, repeats a short name with other coordinates, and there
\* is a second node.
C1_Witness ==
    /\ Returned
    /\ Len(graph.nodes) = 2
    /\ \E i, j \in DOMAIN AllStops :
           /\ i <= Len(data[1].scheduled_stop_points)
           /\ j > Len(data[1].scheduled_stop_points)
           /\ AllStops[i].short_name = AllStops[j].short_name
           /\ AllStops[i].long # AllStops[j].long
           /\ FirstSeen(AllStops[i].short_name) = i

\* C2: in the returned graph there is exactly one edge from X to Y if some
\* service journey has consecutive passing times resolving to X then Y, and none
\* otherwise, however the partial edge maps were combined.
C2_OneEdgePerAdjacentPair ==
    Returned =>
        \A x, y \in NodeIndices :
            Cardinality(EdgesWithKey(graph.edges, x, y)) =
                IF \E kw \in Windows : WindowKey(kw) = <<x, y>> THEN 1 ELSE 0

\* C2 witness: a graph with the edges (0, 1) and (1, 0) and without (1, 1),
\* reduced from three partial maps of which two hold the same key.
C2_Witness ==
    /\ Returned
    /\ Len(partials) = 3
    /\ \E i, j \in DOMAIN AllJourneys :
           i # j /\ AllJourneys[i].passing_times = AllJourneys[j].passing_times
    /\ Cardinality(EdgesWithKey(graph.edges, 0, 1)) = 1
    /\ Cardinality(EdgesWithKey(graph.edges, 1, 0)) = 1
    /\ EdgesWithKey(graph.edges, 1, 1) = {}

\* C3: the journey records of all edges of the returned graph are as many as the
\* windows of all service journeys: the sum of (passing times - 1) over the
\* journeys with at least two passing times.
C3_JourneyCount ==
    Returned =>
        SumSeq([i \in DOMAIN graph.edges |-> Len(graph.edges[i].timetable.journeys)])
            = SumSeq([k \in DOMAIN AllJourneys |->
                         IF Len(AllJourneys[k].passing_times) >= 2
                         THEN Len(AllJourneys[k].passing_times) - 1 ELSE 0])

\* C3 witness: three journeys were reduced into one edge of three journey records.
C3_Witness ==
    /\ Returned
    /\ Len(partials) = 3
    /\ Len(graph.edges) = 1
    /\ Len(graph.edges[1].timetable.journeys) = 3

AllPeriods == FlatMap(data, "operating_periods")

\* The global index from_data gives the operating period of journey k.
GlobalPeriodOf(k) ==
    period_map[day_type_assignments[AllJourneys[k].day_type].operating_period]

\* The multiset of the elements of a sequence.
BagOf(s) == [x \in Range(s) |-> Cardinality({i \in DOMAIN s : s[i] = x})]

\* The multiset of F(kw) over the windows that resolve to the key.
WindowBag(key, F(_)) ==
    LET ws == {kw \in Windows : WindowKey(kw) = key}
    IN  [x \in {F(kw) : kw \in ws} |-> Cardinality({kw \in ws : F(kw) = x})]

KeyOf(edge) == <<edge.start_node, edge.end_node>>

\* An edge as the calendar compactor is claimed to leave it.
Compacted(edge) ==
    LET journeys == edge.timetable.journeys
        used(i) == {journeys[k].operating_period : k \in 1..i}
    IN  /\ used(Len(journeys)) = 0..(Len(edge.timetable.periods) - 1)
        /\ \A i \in DOMAIN journeys :
               \/ journeys[i].operating_period \in used(i - 1)
               \/ journeys[i].operating_period = Cardinality(used(i - 1))
        /\ Len(edge.timetable.periods) =
               Cardinality({GlobalPeriodOf(kw[1]) :
                               kw \in {w \in Windows : WindowKey(w) = KeyOf(edge)}})

\* C4: after compaction the operating_period values of an edge's journeys are
\* exactly 0 .. periods.len() - 1, given from 0 in first-encounter order, and
\* periods.len() is the number of distinct global indices the edge's journeys
\* referenced.
C4_LocalPeriodsDense ==
    /\ pc \in {"compact", "done"} => \A key \in compacted : Compacted(edges[key])
    /\ Returned => \A i \in DOMAIN graph.edges : Compacted(graph.edges[i])

\* C4 witness: a returned edge of three journeys over two periods, whose local
\* index 0 is the period of global index 1.
C4_Witness ==
    /\ Returned
    /\ \E i \in DOMAIN graph.edges :
           /\ Len(graph.edges[i].timetable.journeys) = 3
           /\ Len(graph.edges[i].timetable.periods) = 2
           /\ graph.edges[i].timetable.periods[1].from = 220201
           /\ AllPeriods[2].from = 220201

\* C5: in every returned graph the start and end node of every edge index nodes,
\* and the operating_period of every journey indexes its own edge's periods.
C5_StructurallyValid ==
    Returned =>
        \A i \in DOMAIN graph.edges :
            /\ graph.edges[i].start_node \in 0..(Len(graph.nodes) - 1)
            /\ graph.edges[i].end_node \in 0..(Len(graph.nodes) - 1)
            /\ \A k \in DOMAIN graph.edges[i].timetable.journeys :
                   graph.edges[i].timetable.journeys[k].operating_period
                       \in 0..(Len(graph.edges[i].timetable.periods) - 1)

\* C5 witness: a returned graph of two nodes and three edges, one of them with
\* journeys of two periods.
C5_Witness ==
    /\ Returned
    /\ Len(graph.nodes) = 2
    /\ Len(graph.edges) = 3
    /\ \E i \in DOMAIN graph.edges :
           \E k \in DOMAIN graph.edges[i].timetable.journeys :
               graph.edges[i].timetable.journeys[k].operating_period = 1

AssignedDayTypes ==
    {dta.day_type : dta \in Range(FlatMap(data, "day_type_assignments"))}

\* C6: for every input with a service journey whose day type has no day-type
\* assignment in any dataset, from_data aborts and returns no graph, however many
\* passing times the journey has.
C6_AbortsOnUnassignedDayType ==
    (\E k \in DOMAIN AllJourneys : AllJourneys[k].day_type \notin AssignedDayTypes)
        => ~Returned

\* The journey record of a window with its operating period resolved, read off
\* the input and the lookup tables.
ExpectedJourney(kw) ==
    LET journey == AllJourneys[kw[1]]
        line == lines[pattern_ref_to_line[journey.pattern_ref]]
        period == AllPeriods[GlobalPeriodOf(kw[1]) + 1]
    IN  [departure |-> journey.passing_times[kw[2]].departure,
         arrival |-> journey.passing_times[kw[2] + 1].arrival,
         transport_mode |-> journey.transport_mode,
         line |-> line.short_name,
         controller |-> authorities[line.authority].short_name,
         period |-> [from |-> period.from, to |-> period.to,
                     valid_day_bits |-> Base64Encode(period.valid_day_bits),
                     valid_day |-> period.valid_day_bits]]

\* The journeys of an edge, each with the period its index resolves to.
ResolvedJourneys(edge) ==
    [i \in DOMAIN edge.timetable.journeys |->
        LET journey == edge.timetable.journeys[i]
        IN  [departure |-> journey.departure,
             arrival |-> journey.arrival,
             transport_mode |-> journey.transport_mode,
             line |-> journey.line,
             controller |-> journey.controller,
             period |-> edge.timetable.periods[journey.operating_period + 1]]]

Panics(k) == MapJourneyResult(AllJourneys[k]).failure # NoFailure

\* C7: the result does not depend on the schedule of the parallel phase: whether
\* a graph is returned, its node list, its set of edge keys and, for every edge,
\* the multiset of its journeys with their periods resolved are fixed by the
\* input.
C7_ScheduleIndependent ==
    /\ pc = "panic" => \E k \in DOMAIN AllJourneys : Panics(k)
    /\ Returned =>
        /\ \A k \in DOMAIN AllJourneys : ~Panics(k)
        /\ NodesAsClaimed(graph.nodes)
        /\ {KeyOf(graph.edges[i]) : i \in DOMAIN graph.edges}
               = {WindowKey(kw) : kw \in Windows}
        /\ \A i \in DOMAIN graph.edges :
               BagOf(ResolvedJourneys(graph.edges[i]))
                   = WindowBag(KeyOf(graph.edges[i]), ExpectedJourney)

\* C7 witness: three partial maps were reduced into one edge of three journeys
\* over two periods, numbered locally against their global order.
C7_Witness ==
    /\ Returned
    /\ Len(partials) = 3
    /\ \E i \in DOMAIN graph.edges :
           /\ Len(graph.edges[i].timetable.journeys) = 3
           /\ Len(graph.edges[i].timetable.periods) = 2
           /\ graph.edges[i].timetable.periods[1].from = AllPeriods[2].from
           /\ AllPeriods[1].from # AllPeriods[2].from

Bit(byte, k) == (byte \div Pow2(k)) % 2

\* C8: parse_day_bits returns ceil(n / 8) bytes for a string of n characters '0'
\* and '1'; bit (i mod 8) of byte (i div 8), from the least significant, is 1
\* exactly when character i is '1'; the bits from n on are 0; "1111111011" packs
\* to [0x7F, 0x03].
C8_DayBitsPacked ==
    bits_pc = "done" =>
        /\ Len(result) = (Len(text) + 7) \div 8
        /\ \A b \in DOMAIN result : result[b] \in 0..255
        /\ \A i \in 0..(8 * Len(result) - 1) :
               Bit(result[(i \div 8) + 1], i % 8) =
                   IF i < Len(text) /\ text[i + 1] = ASCII_ZERO + 1 THEN 1 ELSE 0
        /\ text = <<49, 49, 49, 49, 49, 49, 49, 48, 49, 49>> => result = <<127, 3>>

\* C8 witness: the string "1111111011" was packed, into two bytes.
C8_Witness ==
    /\ bits_pc = "done"
    /\ text = <<49, 49, 49, 49, 49, 49, 49, 48, 49, 49>>
    /\ Len(result) = 2

StopIds == {AllStops[i].id : i \in DOMAIN AllStops}

PatternStops ==
    UNION {Range(pattern.stops) :
              pattern \in Range(FlatMap(data, "service_journey_patterns"))}

\* C9: for every input in which a journey pattern holds a stop point in pattern
\* whose scheduled stop point reference is the identifier of no stop point,
\* from_data aborts and returns no graph, whether or not a passing time uses that
\* pattern point.
C9_AbortsOnUnresolvedPatternStop ==
    (\E stop \in PatternStops : stop.scheduled_stop_point \notin StopIds)
        => ~Returned

\* The number of periods in the datasets before dataset d (1-based).
Offset(d) == SumSeq([k \in 1..(d - 1) |-> Len(data[k].operating_periods)])

\* The positions of the input's periods: dataset d (1-based), index i (0-based).
PeriodPositions ==
    {di \in (DOMAIN data) \X (0..MaxPeriods) :
        di[2] < Len(data[di[1]].operating_periods)}

PeriodAt(di) == data[di[1]].operating_periods[di[2] + 1]

\* The period at the position whose global index is g.
PeriodOfGlobal(g) ==
    PeriodAt(CHOOSE di \in PeriodPositions : Offset(di[1]) + di[2] = g)

\* The times and the calendar of a window, the period read at the position of
\* the global index that period_map gives.
ExpectedCalendar(kw) ==
    LET journey == AllJourneys[kw[1]]
        period == PeriodOfGlobal(GlobalPeriodOf(kw[1]))
    IN  [departure |-> journey.passing_times[kw[2]].departure,
         arrival |-> journey.passing_times[kw[2] + 1].arrival,
         from |-> period.from, to |-> period.to, valid_day |-> period.valid_day_bits]

Calendars(edge) ==
    [i \in DOMAIN edge.timetable.journeys |->
        LET journey == edge.timetable.journeys[i]
            period == edge.timetable.periods[journey.operating_period + 1]
        IN  [departure |-> journey.departure, arrival |-> journey.arrival,
             from |-> period.from, to |-> period.to, valid_day |-> period.valid_day]]

\* C10: the period at index i of dataset d is enumerated with the global index
\* (periods of the datasets before d) + i, lookup_operating_period returns that
\* period for that index, and None exactly from the total number of periods on;
\* so after compaction every journey's local period has the from, to and
\* valid_day of the period at the global index period_map gave.
C10_GlobalIndexAgrees ==
    /\ LookupsBuilt =>
           /\ \A di \in PeriodPositions :
                  /\ AllPeriods[Offset(di[1]) + di[2] + 1] = PeriodAt(di)
                  /\ lookup_operating_period(data, Offset(di[1]) + di[2])
                         = Some(PeriodAt(di))
           /\ \A g \in 0..(Len(AllPeriods) + 2) :
                  (lookup_operating_period(data, g) = None) <=> (g >= Len(AllPeriods))
           /\ DOMAIN period_map = {PeriodAt(di).id : di \in PeriodPositions}
           /\ \A di \in PeriodPositions :
                  /\ period_map[PeriodAt(di).id] >= Offset(di[1]) + di[2]
                  /\ PeriodOfGlobal(period_map[PeriodAt(di).id]).id = PeriodAt(di).id
    /\ Returned =>
           \A i \in DOMAIN graph.edges :
               BagOf(Calendars(graph.edges[i]))
                   = WindowBag(KeyOf(graph.edges[i]), ExpectedCalendar)

\* C10 witness: a graph returned for periods spread over three datasets, the
\* first two without periods, with a journey on the period of global index 1.
C10_Witness ==
    /\ Returned
    /\ Len(data) = 3
    /\ data[1].operating_periods = << >>
    /\ data[2].operating_periods = << >>
    /\ Len(data[3].operating_periods) = 3
    /\ \E k \in DOMAIN AllJourneys : GlobalPeriodOf(k) = 1

AllPatterns == FlatMap(data, "service_journey_patterns")

KeysOf(s, field) == {s[i][field] : i \in DOMAIN s}

\* The position in s of the first, and of the last, record whose field is k.
FirstWithKey(s, field, k) ==
    CHOOSE i \in DOMAIN s : s[i][field] = k /\ \A j \in 1..(i - 1) : s[j][field] # k

LastWithKey(s, field, k) ==
    CHOOSE i \in DOMAIN s : s[i][field] = k /\ \A j \in (i + 1)..Len(s) : s[j][field] # k

\* The map holds, for every key of the records, the last record with that key.
LastRecordWins(m, s, field) ==
    /\ DOMAIN m = KeysOf(s, field)
    /\ \A k \in KeysOf(s, field) : m[k] = s[LastWithKey(s, field, k)]

\* The line, authority, pattern -> line and day-type maps are last-write-wins.
MetadataLastWriteWins ==
    /\ LastRecordWins(lines, FlatMap(data, "lines"), "id")
    /\ LastRecordWins(authorities, FlatMap(data, "authorities"), "id")
    /\ LastRecordWins(day_type_assignments, FlatMap(data, "day_type_assignments"),
                      "day_type")
    /\ DOMAIN pattern_ref_to_line = KeysOf(AllPatterns, "id")
    /\ \A id \in KeysOf(AllPatterns, "id") :
           pattern_ref_to_line[id] = AllPatterns[LastWithKey(AllPatterns, "id", id)].line

====
